---- MODULE Spec2Model ----
(***************************************************************************)
(* Galactic Unicorn equalizer: the wire protocol between the host          *)
(* (src/host/protocol.py, encoder) and the boards (src/pico/protocol.py,   *)
(* streaming decoder and datagram validator).                              *)
(*                                                                         *)
(* Byte sequences are TLA+ sequences of naturals in 0..255, indexed from   *)
(* 1: the byte the source calls data[k] is data[k + 1] here.               *)
(***************************************************************************)
EXTENDS Integers, Sequences, FiniteSets, TLC

VARIABLES
    \* --- codec scenario (one packet through encoder and decoder) ---
    args,       \* the arguments of the call of encode_packet
    packet,     \* the bytes the sender produced (<<>> before the call)
    variant,    \* "none", "host" (encode_packet), "v59" (59-byte layout) or "raw"
    dgram,      \* the buffer that reaches the board
    flip,       \* the bit altered in flight: [idx, bit], idx = 0 for none
    vres,       \* result of validate_packet(dgram)
    fres,       \* result of PacketDecoder().feed(dgram)
    cpc,        \* "start", "encoded", "sent", "wifi", "serial"
    \* --- serial stream scenario (src/pico/main.py _run_serial) ---
    input,      \* every byte written to the serial line so far
    segs,       \* what was written: the segments of input, in order
    fedN,       \* number of bytes of input already read by the board
    chunk,      \* the bytes the last read returned (data in _run_serial)
    dec,        \* the PacketDecoder: [state, buf, pos]
    results,    \* the list returned by the last call of feed
    frames,     \* the frames returned by all calls of feed, in order
    ends,       \* for each frame of frames, the offset in input of its last byte
    \* --- spectrum analyzer scenario (src/host/fft_processor.py) ---
    tape,       \* the recording played: runs of equal chunks
    seg,        \* the run of tape the next chunk comes from
    rep,        \* chunks of that run already processed
    fft,        \* the FFTProcessor: [smoothed, tracked_peak_db]
    prev,       \* the FFTProcessor as it was before the last call of process
    db_in,      \* the band levels of the chunk of the last call (<<>>: no call yet)
    bars,       \* the heights the last call of process returned
    \* --- host scenario (src/host/main.py) ---
    transport,  \* "serial", "udp" or "console": how main was started
    latest_bars, \* the shared slot
    lock,       \* who holds the lock: "free", "producer" or "consumer"
    ppc,        \* where audio_callback is: "wait", "processed", "locked"
    pbars,      \* bars, the local of audio_callback
    calls,      \* calls of fft_proc.process so far
    published,  \* the arrays published so far, in order
    hpc,        \* where main is: "while", "acquire", "copy", "encode",
                \* "send_left", "send_right", "advance", "finally", "exit"
    snapshot,   \* bars, the local of the loop (<<>> before the first copy)
    seen,       \* how many arrays had been published when snapshot was copied
    left_pkt,   \* the packet for the left board
    right_pkt,  \* the packet for the right board
    frame_num,  \* the rolling frame number
    running,    \* the flag the signal handler clears
    raised,     \* the exception that left the loop, "none" if none
    wire,       \* the calls of the transport's send methods, in order
    reports,    \* the error messages printed, by the send that failed
    ticks,      \* ticks started
    audio_on,   \* the capture stream is running
    link_open,  \* the transport is open
    \* --- board scenario (src/pico/main.py) ---
    config,     \* the board's config.py: [BOARD_ID, FLIPPED]
    link,       \* "wifi" or "serial": the transport main selected
    port,       \* serial: the host port the board is plugged into, 0 left, 1 right
    inbox,      \* what waits to be read: datagrams (wifi) or writes (serial)
    sent,       \* ticks of the host that have reached the board
    decoder,    \* decoder, the PacketDecoder of _run_serial
    clock,      \* time.ticks_ms()
    iters,      \* iterations of the board's loop so far
    local_brightness, \* the lux setting
    last_lux_ms,  \* when a lux button last acted
    lux_dirty_ms, \* when the lux setting last changed, 0 if it is saved
    lux_file,   \* the content of lux.cfg
    last_frame_ms, \* the no-data timer: when the display was last drawn
    last_wifi_check_ms, \* when the connection was last checked
    renders,    \* the calls of vis.render, in order
    timer_by    \* the board_id of the packet that last reset the no-data
                \* timer, -1 if it was the start or a blank frame

codecVars == <<args, packet, variant, dgram, flip, vres, fres, cpc>>
streamVars == <<input, segs, fedN, chunk, dec, results, frames, ends>>
fftVars == <<tape, seg, rep, fft, prev, db_in, bars>>
hostVars == <<transport, latest_bars, lock, ppc, pbars, calls, published, hpc,
              snapshot, seen, left_pkt, right_pkt, frame_num, running, raised,
              wire, reports, ticks, audio_on, link_open>>
boardVars == <<config, link, port, inbox, sent, decoder, clock, iters,
               local_brightness, last_lux_ms, lux_dirty_ms, lux_file,
               last_frame_ms, last_wifi_check_ms, renders, timer_by>>
vars == <<args, packet, variant, dgram, flip, vres, fres, cpc,
          input, segs, fedN, chunk, dec, results, frames, ends,
          tape, seg, rep, fft, prev, db_in, bars,
          transport, latest_bars, lock, ppc, pbars, calls, published, hpc,
          snapshot, seen, left_pkt, right_pkt, frame_num, running, raised,
          wire, reports, ticks, audio_on, link_open,
          config, link, port, inbox, sent, decoder, clock, iters,
          local_brightness, last_lux_ms, lux_dirty_ms, lux_file,
          last_frame_ms, last_wifi_check_ms, renders, timer_by>>

----------------------------------------------------------------------------
\* Program constants.

SYNC_0 == 170
SYNC_1 == 85
HEADER_SIZE == 3
NUM_COLS == 53
VU_FIELDS == 4
PACKET_BODY == HEADER_SIZE + NUM_COLS
PACKET_TOTAL == 2 + PACKET_BODY + 1

STATE_SYNC0 == 0
STATE_SYNC1 == 1
STATE_BODY == 2

SYNC == <<SYNC_0, SYNC_1>>

\* Python's None, and a present optional argument.
None == [some |-> FALSE, val |-> <<>>]
Some(v) == [some |-> TRUE, val |-> v]

----------------------------------------------------------------------------
\* Bytes.

\* a ^ b on the low n bits.
RECURSIVE XorBits(_, _, _)
XorBits(a, b, n) ==
    IF n = 0 THEN 0
    ELSE (((a % 2) + (b % 2)) % 2) + 2 * XorBits(a \div 2, b \div 2, n - 1)

\* a ^ b for 4-bit operands, tabulated.
XorNibble == [a \in 0..15 |-> [b \in 0..15 |-> XorBits(a, b, 4)]]

\* a ^ b for bytes: the high and the low four bits separately.
BitXor(a, b) == 16 * XorNibble[a \div 16][b \div 16] + XorNibble[a % 16][b % 16]

\* chk = 0; for b in (s[i], ..., s[n]): chk ^= b.  The XOR of the range is
\* taken by halves (^ is associative) to keep the evaluation shallow.
RECURSIVE XorFrom(_, _, _)
XorFrom(s, i, n) ==
    IF i > n THEN 0
    ELSE IF i = n THEN s[i]
    ELSE CHOOSE x \in {BitXor(XorFrom(s, i, mid), XorFrom(s, mid + 1, n)) :
                       mid \in {(i + n) \div 2}} : TRUE

XorAll(s) == XorFrom(s, 1, Len(s))

\* x & 0xFF on Python's unbounded integers.
Mask8(x) == x % 256

ClampExclusive(x, lo, hi) == IF x < lo THEN lo ELSE IF x >= hi THEN hi - 1 ELSE x
\* min(max(int(x), lo), hi)
Clamp(x, lo, hi) == IF x < lo THEN lo ELSE IF x > hi THEN hi ELSE x

----------------------------------------------------------------------------
\* Host encoder: src/host/protocol.py.

\* body = bytearray(113) and the assignments of lines 38-48.
EncodeBody(board_id, frame, brightness, columns, scope_columns, vu) ==
    [k \in 1..(3 + NUM_COLS + NUM_COLS + VU_FIELDS) |->
        IF k = 1 THEN Mask8(board_id)
        ELSE IF k = 2 THEN Mask8(frame)
        ELSE IF k = 3 THEN Mask8(brightness)
        ELSE IF k <= 3 + NUM_COLS THEN Clamp(columns[k - 3], 0, 11)
        ELSE IF k <= 56 + NUM_COLS
             THEN IF scope_columns.some
                  THEN Clamp(scope_columns.val[k - 56], 0, 10) ELSE 0
        ELSE IF vu.some THEN Clamp(vu.val[k - 109], 0, NUM_COLS) ELSE 0]

EncodeNoScope(board_id, frame, brightness, columns, scope_columns, vu) ==
    LET body == EncodeBody(board_id, frame, brightness, columns, None, vu)
    IN SYNC \o body \o <<XorAll(body)>>

encode_packet(board_id, frame, brightness, columns, scope_columns, vu) ==
    LET body == EncodeBody(board_id, frame, brightness, columns, scope_columns, vu)
    IN SYNC \o body \o <<XorAll(body)>>

\* The 59-byte layout the boards document: sync, header, 53 bars, checksum.
Packet59(board_id, frame, brightness, columns) ==
    LET body == [k \in 1..PACKET_BODY |->
                    IF k = 1 THEN Mask8(board_id)
                    ELSE IF k = 2 THEN Mask8(frame)
                    ELSE IF k = 3 THEN Mask8(brightness)
                    ELSE Clamp(columns[k - 3], 0, 11)]
    IN SYNC \o body \o <<XorAll(body)>>

\* A buffer of the 59-byte layout from a sender that does not clamp: sync,
\* any 56 body bytes, their XOR.
RawPacket59(board_id, frame, brightness, columns) ==
    LET body == [k \in 1..PACKET_BODY |->
                    IF k = 1 THEN Mask8(board_id)
                    ELSE IF k = 2 THEN Mask8(frame)
                    ELSE IF k = 3 THEN Mask8(brightness)
                    ELSE Mask8(columns[k - 3])]
    IN SYNC \o body \o <<XorAll(body)>>

----------------------------------------------------------------------------
\* Board decoder: src/pico/protocol.py.

\* The dict both decoders return, built from a body of PACKET_BODY bytes.
FrameOf(body) ==
    [board_id |-> body[1], frame |-> body[2], brightness |-> body[3],
     columns |-> SubSeq(body, 4, 3 + NUM_COLS)]

\* PacketDecoder.__init__
PacketDecoder ==
    [state |-> STATE_SYNC0, buf |-> [k \in 1..(PACKET_BODY + 1) |-> 0], pos |-> 0]

\* One decoder step returns the decoder and the frames appended to results.
StepSync0Any(d, b) == [d |-> [d EXCEPT !.state = STATE_SYNC1], out |-> <<>>]
StepSync0(d, b) ==
    [d |-> IF b = SYNC_0 THEN [d EXCEPT !.state = STATE_SYNC1] ELSE d,
     out |-> <<>>]

StepSync1NoRepeat(d, b) ==
    [d |-> IF b = SYNC_1 THEN [d EXCEPT !.state = STATE_BODY, !.pos = 0]
           ELSE [d EXCEPT !.state = STATE_SYNC0],
     out |-> <<>>]
StepSync1(d, b) ==
    [d |-> IF b = SYNC_1 THEN [d EXCEPT !.state = STATE_BODY, !.pos = 0]
           ELSE IF b = SYNC_0 THEN d
           ELSE [d EXCEPT !.state = STATE_SYNC0],
     out |-> <<>>]

\* Lines 60-72: the buffer is full.
BodyDoneUnchecked(d) ==
    [d |-> [d EXCEPT !.state = STATE_SYNC0],
     out |-> <<FrameOf(SubSeq(d.buf, 1, PACKET_BODY))>>]
BodyDoneStay(d) ==
    IF XorFrom(d.buf, 1, PACKET_BODY) = d.buf[PACKET_BODY + 1]
    THEN [d |-> [d EXCEPT !.state = STATE_SYNC0],
          out |-> <<FrameOf(SubSeq(d.buf, 1, PACKET_BODY))>>]
    ELSE [d |-> [d EXCEPT !.pos = 0], out |-> <<>>]
BodyDoneNoReturn(d) ==
    [d |-> d,
     out |-> IF XorFrom(d.buf, 1, PACKET_BODY) = d.buf[PACKET_BODY + 1]
             THEN <<FrameOf(SubSeq(d.buf, 1, PACKET_BODY))>>
             ELSE <<>>]
BodyDone(d) ==
    [d |-> [d EXCEPT !.state = STATE_SYNC0],
     out |-> IF XorFrom(d.buf, 1, PACKET_BODY) = d.buf[PACKET_BODY + 1]
             THEN <<FrameOf(SubSeq(d.buf, 1, PACKET_BODY))>>
             ELSE <<>>]

StepBodyNoStore(d, b) ==
    LET d1 == [d EXCEPT !.pos = d.pos + 1]
    IN IF d1.pos = PACKET_BODY + 1 THEN BodyDone(d1) ELSE [d |-> d1, out |-> <<>>]
\* Lines 57-72.
StepBody(d, b) ==
    LET d1 == [d EXCEPT !.buf[d.pos + 1] = b, !.pos = d.pos + 1]
    IN IF d1.pos = PACKET_BODY + 1 THEN BodyDone(d1) ELSE [d |-> d1, out |-> <<>>]

\* The body of the loop "for b in data", lines 46-72.
FeedByte(d, b) ==
    IF d.state = STATE_SYNC0 THEN StepSync0(d, b)
    ELSE IF d.state = STATE_SYNC1 THEN StepSync1(d, b)
    ELSE StepBody(d, b)

\* What the loop has done over two adjacent ranges of data, a then b: the
\* decoder the second leaves, and the frames in the order they were appended.
Then(a, b) ==
    [d |-> b.d, results |-> a.results \o b.results, ends |-> a.ends \o b.ends]

\* The loop "for b in data" over data[lo..hi], started on decoder d: the
\* decoder it leaves, the frames it appends to results and, for each of them,
\* the index in data of the byte that completed it.  One byte is one pass of
\* the loop body; a longer range is run by halves, the second half from the
\* decoder the first half leaves (the first half is bound as a value, so
\* that it is run once).
RECURSIVE FeedLoop(_, _, _, _)
FeedLoop(d, data, lo, hi) ==
    IF lo > hi THEN [d |-> d, results |-> <<>>, ends |-> <<>>]
    ELSE IF lo = hi
    THEN CHOOSE x \in {[d |-> r.d, results |-> r.out,
                        ends |-> IF r.out = <<>> THEN <<>> ELSE <<lo>>] :
                       r \in {FeedByte(d, data[lo])}} : TRUE
    ELSE CHOOSE x \in {Then(a, FeedLoop(a.d, data, ((lo + hi) \div 2) + 1, hi)) :
                       a \in {FeedLoop(d, data, lo, (lo + hi) \div 2)}} : TRUE

FeedFresh(d, data) == FeedLoop(PacketDecoder, data, 1, Len(data))
\* PacketDecoder.feed(data) on the decoder d.
Feed(d, data) == FeedLoop(d, data, 1, Len(data))

ValidateNoChecksum(data) ==
    IF Len(data) # PACKET_TOTAL THEN None
    ELSE IF data[1] # SYNC_0 \/ data[2] # SYNC_1 THEN None
    ELSE Some(FrameOf(SubSeq(data, 3, 2 + PACKET_BODY)))
ValidateOffByOne(data) ==
    IF Len(data) # PACKET_TOTAL THEN None
    ELSE IF data[1] # SYNC_0 \/ data[2] # SYNC_1 THEN None
    ELSE LET body == SubSeq(data, 3, 2 + PACKET_BODY)
             checksum == data[3 + PACKET_BODY]
         IN IF XorAll(body) # checksum THEN None
            ELSE Some([FrameOf(body) EXCEPT !.columns = SubSeq(body, 3, 2 + NUM_COLS)])
\* validate_packet(data): None, or Some(frame).
validate_packet(data) ==
    IF Len(data) # PACKET_TOTAL THEN None
    ELSE IF data[1] # SYNC_0 \/ data[2] # SYNC_1 THEN None
    ELSE LET body == SubSeq(data, 3, 2 + PACKET_BODY)
             checksum == data[3 + PACKET_BODY]
         IN IF XorAll(body) # checksum THEN None ELSE Some(FrameOf(body))

----------------------------------------------------------------------------
\* src/host/fft_processor.py: the spectrum analyzer.
\*
\* Its floats are fixed-point numbers here: decibels in thousandths of a dB,
\* heights in thousandths of a row, rates in thousandths.  A float that can
\* be NaN is a record [nan, v].  An audio chunk is given by the band levels
\* that lines 60-74 compute for it.

Milli == 1000
NUM_BANDS == 53
MAX_HEIGHT == 11
ATTACK == 800
DECAY == 300
DB_FLOOR == -60000
HEADROOM_DB == 8000
DISPLAY_RANGE_DB == 55000
PEAK_ATTACK_RATE == 900
PEAK_RELEASE_RATE == 5
\* Line 73-74: 20 * log10(1e-10), the level of a band without signal.
DB_SILENT == -200000

NaN == [nan |-> TRUE, v |-> 0]
Num(v) == [nan |-> FALSE, v |-> v]

\* a / b to the nearest unit, for b > 0.
RoundDiv(a, b) == (2 * a + b) \div (2 * b)
\* rate * x, for a rate in thousandths.
Rate(rate, x) == RoundDiv(rate * x, Milli)

\* FFTProcessor.__init__, lines 35-36.
FFTProcessor ==
    [smoothed |-> [i \in 1..NUM_BANDS |-> Num(0)], tracked_peak_db |-> DB_FLOOR]

\* np.max(db), line 77.
RECURSIVE MaxFrom(_, _)
MaxFrom(db, i) ==
    IF i = Len(db) THEN db[i]
    ELSE IF db[i] >= MaxFrom(db, i + 1) THEN db[i] ELSE MaxFrom(db, i + 1)

\* Lines 78-85: the tracked peak follows the loudest band.
TrackPeak(tracked, current_peak_db) ==
    IF current_peak_db > tracked
    THEN tracked + Rate(PEAK_ATTACK_RATE, current_peak_db - tracked)
    ELSE tracked + Rate(PEAK_RELEASE_RATE, current_peak_db - tracked)

\* Lines 88-89.
EffectiveCeil(tracked) == tracked + HEADROOM_DB
EffectiveFloor(ceil) ==
    IF ceil - DISPLAY_RANGE_DB >= DB_FLOOR THEN ceil - DISPLAY_RANGE_DB ELSE DB_FLOOR

\* Lines 92-93: (db - floor) / (ceil - floor) clipped to [0, 1], in
\* thousandths.  Division by zero gives an infinity, which clips to an end of
\* the range, or, for 0 / 0, NaN, which np.clip leaves as it is.
Normalized(db, floor, ceil) ==
    IF ceil - floor = 0
    THEN IF db - floor = 0 THEN NaN
         ELSE IF db - floor > 0 THEN Num(Milli) ELSE Num(0)
    ELSE IF ceil - floor > 0
    THEN Num(Clamp(RoundDiv(Milli * (db - floor), ceil - floor), 0, Milli))
    ELSE Num(Clamp(RoundDiv(Milli * (floor - db), floor - ceil), 0, Milli))

\* Line 94.
Height(n) == IF n.nan THEN NaN ELSE Num(n.v * MAX_HEIGHT)

\* Lines 98-101: a comparison with NaN is false, and NaN spreads.
Smooth(s, h) ==
    IF s.nan \/ h.nan THEN NaN
    ELSE IF h.v >= s.v THEN Num(s.v + Rate(ATTACK, h.v - s.v))
    ELSE Num(s.v + Rate(DECAY, h.v - s.v))

\* np.round: to the nearest integer, a tie to the even one.
RoundHalfEven(v) ==
    IF v % Milli > Milli \div 2 \/ (v % Milli = Milli \div 2 /\ (v \div Milli) % 2 = 1)
    THEN (v \div Milli) + 1
    ELSE v \div Milli

\* What astype(int) can make of NaN: the conversion is undefined, builds give
\* 0 or the most negative integer (written here as the most negative integer
\* of the model checker).
NanAsInt == {0, -2147483647 - 1}

\* Line 103, with nan_int the integer this build makes of NaN.
Bars(smoothed, nan_int) ==
    [i \in 1..NUM_BANDS |->
        IF smoothed[i].nan THEN nan_int ELSE RoundHalfEven(smoothed[i].v)]

\* FFTProcessor.process from line 76 on, for a chunk with band levels db:
\* the analyzer it leaves.
FFTProcess(p, db) ==
    LET tracked == TrackPeak(p.tracked_peak_db, MaxFrom(db, 1))
        ceil == EffectiveCeil(tracked)
        floor == EffectiveFloor(ceil)
    IN [smoothed |-> [i \in 1..NUM_BANDS |->
                         Smooth(p.smoothed[i], Height(Normalized(db[i], floor, ceil)))],
        tracked_peak_db |-> tracked]

\* Chunks, by their band levels: digital silence, one band at a level over
\* silence, every band at one level.
Silence == [i \in 1..NUM_BANDS |-> DB_SILENT]
Tone(level) == [i \in 1..NUM_BANDS |-> IF i = 1 THEN level ELSE DB_SILENT]
Flat(level) == [i \in 1..NUM_BANDS |-> level]

Run(chunk_db, times) == [db |-> chunk_db, times |-> times]

\* The recordings played to the analyzer: silence from the start; a loud
\* tone, then silence; tones, a long silence, then a chunk with every band
\* at DB_FLOOR.
Tapes ==
    { <<Run(Silence, 20)>>,
      <<Run(Tone(0), 3), Run(Silence, 90)>>,
      <<Run(Tone(0), 1), Run(Tone(-20000), 2), Run(Silence, 234),
        Run(Flat(DB_FLOOR), 1), Run(Silence, 2)>> }

FftIdle ==
    /\ tape = <<>> /\ seg = 1 /\ rep = 0
    /\ fft = FFTProcessor /\ db_in = <<>> /\ bars = <<>> /\ prev = FFTProcessor

----------------------------------------------------------------------------
\* src/host/main.py: the capture callback (producer) and the paced send
\* loop (consumer).

DEFAULT_BRIGHTNESS == 180
\* main.py line 28 imports these two names from protocol.py, which does not
\* define them: the ids of the left and of the right board.
BOARD_LEFT == 0
BOARD_RIGHT == 1

\* np.zeros(n).
Zeros(n) == [i \in 1..n |-> 0]

\* What the k-th call of fft_proc.process returns: NUM_BANDS heights in
\* 0..MAX_HEIGHT, a different array for each call.
ProcessResult(k) == [i \in 1..NUM_BANDS |-> (i + k) % (MAX_HEIGHT + 1)]

\* Python's s[a:b].
Slice(s, a, b) == SubSeq(s, a + 1, IF b < Len(s) THEN b ELSE Len(s))

\* encode_packet raises IndexError at columns[i], line 42, when columns has
\* fewer than NUM_COLS entries.
EncodeRaises(columns) == Len(columns) < NUM_COLS

PublishInPlace(latest, new_bars) ==
    [i \in 1..Len(latest) |-> IF i <= Len(new_bars) THEN new_bars[i] ELSE latest[i]]
\* Line 62, latest_bars = bars: the slot is bound to the array process returned.
Publish(latest, new_bars) == new_bars

\* Line 120, latest_bars.copy().
CopyOf(latest) == latest

Transports == {"serial", "udp", "console"}

HostIdle ==
    /\ transport = "console" /\ latest_bars = Zeros(2 * NUM_COLS) /\ lock = "free"
    /\ ppc = "wait" /\ pbars = <<>> /\ calls = 0 /\ published = <<>>
    /\ hpc = "while" /\ snapshot = <<>> /\ seen = 0
    /\ left_pkt = <<>> /\ right_pkt = <<>>
    /\ frame_num = 0 /\ running = TRUE /\ raised = "none"
    /\ wire = <<>> /\ reports = <<>> /\ ticks = 0
    /\ audio_on = TRUE /\ link_open = FALSE

----------------------------------------------------------------------------
\* The board: src/pico/config.py and src/pico/main.py.  Times are in
\* milliseconds, brightness in hundredths.

NO_DATA_TIMEOUT_MS == 3000
WIFI_CHECK_INTERVAL_MS == 5000
LUX_STEP == 5
LUX_REPEAT_MS == 150
LUX_SAVE_DELAY_MS == 2000

\* config.py is edited per board before flashing: BOARD_ID is 0x00 on the
\* left board and 0x01 on the right one.
Configs == {[BOARD_ID |-> b, FLIPPED |-> FALSE] : b \in {0, 1}}

\* _poll_lux, lines 76-100.  press is the button held: "none", "up", "down".
PollLux(t, press, brightness, last_lux, lux_dirty, file) ==
    LET save == lux_dirty # 0 /\ t - lux_dirty >= LUX_SAVE_DELAY_MS
        file1 == IF save THEN Some(brightness) ELSE file
        dirty1 == IF save THEN 0 ELSE lux_dirty
    IN IF t - last_lux < LUX_REPEAT_MS \/ press = "none"
       THEN [local_brightness |-> brightness, last_lux_ms |-> last_lux,
             lux_dirty_ms |-> dirty1, lux_file |-> file1]
       ELSE [local_brightness |->
                IF press = "up"
                THEN (IF brightness + LUX_STEP > 100 THEN 100 ELSE brightness + LUX_STEP)
                ELSE (IF brightness - LUX_STEP < LUX_STEP THEN LUX_STEP
                      ELSE brightness - LUX_STEP),
             last_lux_ms |-> t, lux_dirty_ms |-> t, lux_file |-> file1]

\* A call vis.render(pkt["columns"], local_brightness) for a decoded packet,
\* with the board the packet was addressed to.
RenderOf(pkt, brightness) ==
    [columns |-> pkt.columns, brightness |-> brightness, board_id |-> pkt.board_id]

\* The call vis.render(blank, 0), lines 131 and 160; it is for no board.
Blank == [columns |-> [k \in 1..NUM_COLS |-> 0], brightness |-> 0, board_id |-> -1]

\* The calls of vis.render for the packets pkts, in order.
RenderAll(pkts, brightness) ==
    [k \in 1..Len(pkts) |-> RenderOf(pkts[k], brightness)]

\* sys.stdin.buffer.read(): everything that waits on the line.
RECURSIVE ReadAll(_)
ReadAll(waiting) ==
    IF waiting = <<>> THEN <<>> ELSE Head(waiting) \o ReadAll(Tail(waiting))

BoardIdle ==
    /\ config = [BOARD_ID |-> 1, FLIPPED |-> FALSE]
    /\ link = "serial" /\ port = 1 /\ inbox = <<>> /\ sent = 0
    /\ decoder = PacketDecoder /\ clock = 0 /\ iters = 0
    /\ local_brightness = 50 /\ last_lux_ms = 0 /\ lux_dirty_ms = 0
    /\ lux_file = None
    /\ last_frame_ms = 0 /\ last_wifi_check_ms = 0
    /\ renders = <<>> /\ timer_by = -1

----------------------------------------------------------------------------
\* Inputs of the codec scenario.

Fill(v) == [k \in 1..NUM_COLS |-> v]
Ramp == [k \in 1..NUM_COLS |-> (k - 1) % 12]
Spike(at, v) == [k \in 1..NUM_COLS |-> IF k = at THEN v ELSE 0]

\* <<board_id, frame, brightness>>, in and out of 0..255.
Headers ==
    {<<0, 7, 128>>, <<1, 170, 85>>, <<0, 0, 0>>, <<255, 255, 255>>, <<-1, 263, 256>>}
ColumnArgs == {Fill(0), Fill(11), Ramp, Fill(-2), Spike(NUM_COLS, 300)}
ScopeArgs == {None, Some([k \in 1..NUM_COLS |-> (k - 1) % 11]), Some([k \in 1..NUM_COLS |-> k - 2])}
VuArgs == {None, Some(<<0, 53, 20, 7>>), Some(<<-1, 54, 20, 60>>)}

\* The arguments are within the ranges the packet format declares.
InRange(a) ==
    /\ a.board_id \in 0..255 /\ a.frame \in 0..255 /\ a.brightness \in 0..255
    /\ \A k \in 1..NUM_COLS : a.columns[k] \in 0..11
    /\ a.scope_columns.some => \A k \in 1..NUM_COLS : a.scope_columns.val[k] \in 0..10
    /\ a.vu.some => \A k \in 1..VU_FIELDS : a.vu.val[k] \in 0..NUM_COLS

\* Bit `bit` of byte i of p inverted in flight.
FlipBit(p, i, bit) == [p EXCEPT ![i] = BitXor(p[i], 2 ^ bit)]
\* The body bytes a transmission error may hit: the first byte of the body
\* (board id), the first bar and the last byte before the checksum.
FlipIndexes(p) == {3, 6, Len(p) - 1}

NoFlip == [idx |-> 0, bit |-> 0]

StreamIdle ==
    /\ input = <<>> /\ segs = <<>> /\ fedN = 0 /\ chunk = <<>>
    /\ dec = PacketDecoder
    /\ results = <<>> /\ frames = <<>> /\ ends = <<>>

CodecIdle ==
    /\ args = [board_id |-> 0, frame |-> 0, brightness |-> 0,
               columns |-> Fill(0), scope_columns |-> None, vu |-> None]
    /\ packet = <<>> /\ variant = "none" /\ dgram = <<>> /\ flip = NoFlip
    /\ vres = None /\ fres = <<>> /\ cpc = "start"

InitCodec ==
    /\ \E h \in Headers, c \in ColumnArgs, s \in ScopeArgs, v \in VuArgs :
          args = [board_id |-> h[1], frame |-> h[2], brightness |-> h[3],
                  columns |-> c, scope_columns |-> s, vu |-> v]
    /\ packet = <<>> /\ variant = "none" /\ dgram = <<>> /\ flip = NoFlip
    /\ vres = None /\ fres = <<>> /\ cpc = "start"
    /\ StreamIdle /\ FftIdle /\ HostIdle /\ BoardIdle

\* The host builds a packet: src/host/main.py calls encode_packet.
Encode ==
    /\ cpc = "start"
    /\ packet' = encode_packet(args.board_id, args.frame, args.brightness,
                               args.columns, args.scope_columns, args.vu)
    /\ variant' = "host"
    /\ cpc' = "encoded"
    /\ UNCHANGED <<args, dgram, flip, vres, fres>>
    /\ UNCHANGED <<streamVars, fftVars, hostVars, boardVars>>

\* A sender of the 59-byte layout builds a packet from the same fields.
Encode59 ==
    /\ cpc = "start"
    /\ packet' = Packet59(args.board_id, args.frame, args.brightness, args.columns)
    /\ variant' = "v59"
    /\ cpc' = "encoded"
    /\ UNCHANGED <<args, dgram, flip, vres, fres>>
    /\ UNCHANGED <<streamVars, fftVars, hostVars, boardVars>>

\* Some other sender builds a buffer of the 59-byte layout without clamping.
EncodeRaw ==
    /\ cpc = "start"
    /\ packet' = RawPacket59(args.board_id, args.frame, args.brightness, args.columns)
    /\ variant' = "raw"
    /\ cpc' = "encoded"
    /\ UNCHANGED <<args, dgram, flip, vres, fres>>
    /\ UNCHANGED <<streamVars, fftVars, hostVars, boardVars>>

\* The transport delivers the packet as sent.
Deliver ==
    /\ cpc = "encoded"
    /\ dgram' = packet
    /\ flip' = NoFlip
    /\ cpc' = "sent"
    /\ UNCHANGED <<args, packet, variant, vres, fres>>
    /\ UNCHANGED <<streamVars, fftVars, hostVars, boardVars>>

\* The transport delivers the packet with one bit of a body byte inverted.
Corrupt ==
    /\ cpc = "encoded"
    /\ \E i \in FlipIndexes(packet), bit \in 0..7 :
          /\ dgram' = FlipBit(packet, i, bit)
          /\ flip' = [idx |-> i, bit |-> bit]
    /\ cpc' = "sent"
    /\ UNCHANGED <<args, packet, variant, vres, fres>>
    /\ UNCHANGED <<streamVars, fftVars, hostVars, boardVars>>

\* src/pico/main.py _run_wifi: one datagram through validate_packet.
RecvWifi ==
    /\ cpc = "sent"
    /\ vres' = validate_packet(dgram)
    /\ cpc' = "wifi"
    /\ UNCHANGED <<args, packet, variant, dgram, flip, fres>>
    /\ UNCHANGED <<streamVars, fftVars, hostVars, boardVars>>

\* src/pico/main.py _run_serial: the same bytes through a fresh decoder.
RecvSerial ==
    /\ cpc = "sent"
    /\ \E data \in {dgram} : fres' = Feed(PacketDecoder, data).results
    /\ cpc' = "serial"
    /\ UNCHANGED <<args, packet, variant, dgram, flip, vres>>
    /\ UNCHANGED <<streamVars, fftVars, hostVars, boardVars>>

NextCodec == Encode \/ Encode59 \/ EncodeRaw \/ Deliver \/ Corrupt \/ RecvWifi \/ RecvSerial

SpecCodec == InitCodec /\ [][NextCodec]_vars

----------------------------------------------------------------------------
\* The serial line into a board: what the far end writes, and the board's
\* loop that reads what has arrived and feeds it to its decoder.

\* Number of segments written to the line in one run.
MaxSegs == 3

\* Bytes of line noise: the two sync bytes and one other byte.
GarbageBytes == {SYNC_0, SYNC_1, 0}

\* The packets of the 59-byte layout that cross the line.  The second has a
\* frame number and a brightness that read 0xAA 0x55.
StreamPackets ==
    <<Packet59(0, 7, 128, Fill(0)), Packet59(1, 170, 85, Ramp)>>

\* A packet cut after HeadLen bytes (the sync and 54 body bytes), and its rest.
HeadLen == PACKET_BODY
\* The bit inverted in a packet damaged on the line: <<byte index, bit>>.
LineFlip == <<6, 0>>

Seg(kind, bytes) == [kind |-> kind, start |-> Len(input), len |-> Len(bytes)]

\* The far end writes the bytes of one segment.
Write(kind, bytes) ==
    /\ Len(segs) < MaxSegs
    /\ input' = input \o bytes
    /\ segs' = Append(segs, Seg(kind, bytes))
    /\ UNCHANGED <<fedN, chunk, dec, results, frames, ends>>
    /\ UNCHANGED <<codecVars, fftVars, hostVars, boardVars>>

WriteGarbage == \E b \in GarbageBytes : Write("garbage", <<b>>)

WritePacket == \E k \in 1..Len(StreamPackets) : Write("packet", StreamPackets[k])

WriteFlipped ==
    Write("flipped", FlipBit(StreamPackets[1], LineFlip[1], LineFlip[2]))

WriteHead == Write("head", SubSeq(StreamPackets[1], 1, HeadLen))

WriteTail == Write("tail", SubSeq(StreamPackets[1], HeadLen + 1, PACKET_TOTAL))

\* src/pico/main.py lines 120-127: read what has arrived, feed the decoder.
SerialPoll ==
    /\ \E data \in {SubSeq(input, fedN + 1, Len(input))} :
       \E r \in {Feed(dec, data)} :
          /\ chunk' = data
          /\ dec' = r.d
          /\ results' = r.results
          /\ frames' = frames \o r.results
          /\ ends' = ends \o [k \in 1..Len(r.ends) |-> fedN + r.ends[k]]
    /\ fedN' = Len(input)
    /\ UNCHANGED <<input, segs>>
    /\ UNCHANGED <<codecVars, fftVars, hostVars, boardVars>>

Init == CodecIdle /\ StreamIdle /\ FftIdle /\ HostIdle /\ BoardIdle

Next ==
    \/ WriteGarbage
    \/ WritePacket
    \/ WriteFlipped
    \/ WriteHead
    \/ WriteTail
    \/ SerialPoll

Spec == Init /\ [][Next]_vars

----------------------------------------------------------------------------
\* The spectrum analyzer fed a recording, chunk by chunk.

InitFFT ==
    /\ CodecIdle /\ StreamIdle /\ HostIdle /\ BoardIdle
    /\ tape \in Tapes /\ seg = 1 /\ rep = 0
    /\ fft = FFTProcessor /\ prev = FFTProcessor /\ db_in = <<>> /\ bars = <<>>

\* src/host/main.py line 60: the capture thread hands the next chunk to
\* fft_proc.process.
Process ==
    /\ seg <= Len(tape)
    /\ \E nan_int \in NanAsInt :
       \E p \in {FFTProcess(fft, tape[seg].db)} :
          /\ fft' = p
          /\ bars' = Bars(p.smoothed, nan_int)
    /\ prev' = fft
    /\ db_in' = tape[seg].db
    /\ IF rep + 1 = tape[seg].times
       THEN seg' = seg + 1 /\ rep' = 0
       ELSE seg' = seg /\ rep' = rep + 1
    /\ UNCHANGED tape
    /\ UNCHANGED <<codecVars, streamVars, hostVars, boardVars>>

NextFFT == Process

SpecFFT == InitFFT /\ [][NextFFT]_vars

----------------------------------------------------------------------------
\* The host between audio.start() and the end of main: the capture thread
\* calls audio_callback, the main thread runs the send loop, and a signal
\* may arrive at any moment.

\* Calls of audio_callback in one run.
MaxCalls == 2
\* Ticks the send loop starts in one run.
MaxTicks == 2

InitHost ==
    /\ CodecIdle /\ StreamIdle /\ FftIdle /\ BoardIdle
    /\ transport \in Transports
    /\ latest_bars = Zeros(2 * NUM_COLS) /\ lock = "free"
    /\ ppc = "wait" /\ pbars = <<>> /\ calls = 0 /\ published = <<>>
    /\ hpc = "while" /\ snapshot = <<>> /\ seen = 0
    /\ left_pkt = <<>> /\ right_pkt = <<>>
    /\ frame_num = 0 /\ running = TRUE /\ raised = "none"
    /\ wire = <<>> /\ reports = <<>> /\ ticks = 0
    /\ audio_on = TRUE /\ link_open = (transport # "console")

HostRest == <<codecVars, streamVars, fftVars, boardVars>>

\* audio_callback, lines 58-60: the capture thread computes the bars.
CallbackProcess ==
    /\ audio_on /\ ppc = "wait" /\ calls < MaxCalls
    /\ calls' = calls + 1
    /\ pbars' = ProcessResult(calls + 1)
    /\ ppc' = "processed"
    /\ UNCHANGED <<transport, latest_bars, lock, published, hpc, snapshot, seen,
                   left_pkt, right_pkt, frame_num, running, raised, wire,
                   reports, ticks, audio_on, link_open>>
    /\ UNCHANGED HostRest

\* Line 61: with lock.
CallbackAcquire ==
    /\ ppc = "processed" /\ lock = "free"
    /\ lock' = "producer"
    /\ ppc' = "locked"
    /\ UNCHANGED <<transport, latest_bars, pbars, calls, published, hpc, snapshot,
                   seen, left_pkt, right_pkt, frame_num, running, raised, wire,
                   reports, ticks, audio_on, link_open>>
    /\ UNCHANGED HostRest

\* Line 62, and the lock is released.
CallbackPublish ==
    /\ ppc = "locked"
    /\ latest_bars' = Publish(latest_bars, pbars)
    /\ published' = Append(published, pbars)
    /\ lock' = "free"
    /\ ppc' = "wait"
    /\ UNCHANGED <<transport, pbars, calls, hpc, snapshot, seen, left_pkt,
                   right_pkt, frame_num, running, raised, wire, reports, ticks,
                   audio_on, link_open>>
    /\ UNCHANGED HostRest

\* shutdown, lines 107-109: SIGINT or SIGTERM is delivered.
Shutdown ==
    /\ running /\ hpc # "exit"
    /\ running' = FALSE
    /\ UNCHANGED <<transport, latest_bars, lock, ppc, pbars, calls, published,
                   hpc, snapshot, seen, left_pkt, right_pkt, frame_num, raised,
                   wire, reports, ticks, audio_on, link_open>>
    /\ UNCHANGED HostRest

\* Line 116, while running: the next tick starts, or the loop is left.
LoopTest ==
    /\ hpc = "while"
    /\ running => ticks < MaxTicks
    /\ IF running
       THEN hpc' = "acquire" /\ ticks' = ticks + 1
       ELSE hpc' = "finally" /\ ticks' = ticks
    /\ UNCHANGED <<transport, latest_bars, lock, ppc, pbars, calls, published,
                   snapshot, seen, left_pkt, right_pkt, frame_num, running,
                   raised, wire, reports, audio_on, link_open>>
    /\ UNCHANGED HostRest

\* Line 119: with lock.
LoopAcquire ==
    /\ hpc = "acquire" /\ lock = "free"
    /\ lock' = "consumer"
    /\ hpc' = "copy"
    /\ UNCHANGED <<transport, latest_bars, ppc, pbars, calls, published, snapshot,
                   seen, left_pkt, right_pkt, frame_num, running, raised, wire,
                   reports, ticks, audio_on, link_open>>
    /\ UNCHANGED HostRest

\* Line 120, and the lock is released.
LoopCopy ==
    /\ hpc = "copy"
    /\ snapshot' = CopyOf(latest_bars)
    /\ seen' = Len(published)
    /\ lock' = "free"
    /\ hpc' = "encode"
    /\ UNCHANGED <<transport, latest_bars, ppc, pbars, calls, published, left_pkt,
                   right_pkt, frame_num, running, raised, wire, reports, ticks,
                   audio_on, link_open>>
    /\ UNCHANGED HostRest

\* Lines 122-131: the two halves of the snapshot are printed or encoded.  An
\* exception of encode_packet leaves the loop for the finally block.
LoopEncode ==
    /\ hpc = "encode"
    /\ \E left_cols \in {Slice(snapshot, 0, NUM_COLS)},
          right_cols \in {Slice(snapshot, NUM_COLS, Len(snapshot))} :
          IF transport = "console"
          THEN /\ hpc' = "advance"
               /\ UNCHANGED <<left_pkt, right_pkt, raised>>
          ELSE IF EncodeRaises(left_cols)
          THEN /\ raised' = "IndexError" /\ hpc' = "finally"
               /\ UNCHANGED <<left_pkt, right_pkt>>
          ELSE IF EncodeRaises(right_cols)
          THEN /\ left_pkt' = encode_packet(BOARD_LEFT, frame_num, DEFAULT_BRIGHTNESS,
                                            left_cols, None, None)
               /\ raised' = "IndexError" /\ hpc' = "finally"
               /\ UNCHANGED right_pkt
          ELSE /\ left_pkt' = encode_packet(BOARD_LEFT, frame_num, DEFAULT_BRIGHTNESS,
                                            left_cols, None, None)
               /\ right_pkt' = encode_packet(BOARD_RIGHT, frame_num, DEFAULT_BRIGHTNESS,
                                             right_cols, None, None)
               /\ hpc' = "send_left"
               /\ UNCHANGED raised
    /\ UNCHANGED <<transport, latest_bars, lock, ppc, pbars, calls, published,
                   snapshot, seen, frame_num, running, wire, reports, ticks,
                   audio_on, link_open>>
    /\ UNCHANGED HostRest

\* SerialManager.send_left / send_right and UDPSender.send: the packet is
\* written, or the write raises and the error is printed.
Send(to, pkt, ok) ==
    /\ wire' = Append(wire, [to |-> to, pkt |-> pkt, ok |-> ok])
    /\ reports' = IF ok THEN reports ELSE Append(reports, to)

\* Lines 133 and 136.
LoopSendLeft ==
    /\ hpc = "send_left"
    /\ \E ok \in BOOLEAN : Send("left", left_pkt, ok)
    /\ hpc' = "send_right"
    /\ UNCHANGED <<transport, latest_bars, lock, ppc, pbars, calls, published,
                   snapshot, seen, left_pkt, right_pkt, frame_num, running,
                   raised, ticks, audio_on, link_open>>
    /\ UNCHANGED HostRest

\* Lines 134 and 137.
LoopSendRight ==
    /\ hpc = "send_right"
    /\ \E ok \in BOOLEAN : Send("right", right_pkt, ok)
    /\ hpc' = "advance"
    /\ UNCHANGED <<transport, latest_bars, lock, ppc, pbars, calls, published,
                   snapshot, seen, left_pkt, right_pkt, frame_num, running,
                   raised, ticks, audio_on, link_open>>
    /\ UNCHANGED HostRest

\* Lines 139-144: the frame number advances and the loop sleeps out the tick.
LoopAdvance ==
    /\ hpc = "advance"
    /\ frame_num' = Mask8(frame_num + 1)
    /\ hpc' = "while"
    /\ UNCHANGED <<transport, latest_bars, lock, ppc, pbars, calls, published,
                   snapshot, seen, left_pkt, right_pkt, running, raised, wire,
                   reports, ticks, audio_on, link_open>>
    /\ UNCHANGED HostRest

\* Lines 146-152, the finally block: audio.stop() returns when no callback
\* is running, then the transport is closed.
Teardown ==
    /\ hpc = "finally" /\ ppc = "wait"
    /\ audio_on' = FALSE
    /\ link_open' = FALSE
    /\ hpc' = "exit"
    /\ UNCHANGED <<transport, latest_bars, lock, ppc, pbars, calls, published,
                   snapshot, seen, left_pkt, right_pkt, frame_num, running,
                   raised, wire, reports, ticks>>
    /\ UNCHANGED HostRest

NextHost ==
    \/ CallbackProcess
    \/ CallbackAcquire
    \/ CallbackPublish
    \/ Shutdown
    \/ LoopTest
    \/ LoopAcquire
    \/ LoopCopy
    \/ LoopEncode
    \/ LoopSendLeft
    \/ LoopSendRight
    \/ LoopAdvance
    \/ Teardown

SpecHost == InitHost /\ [][NextHost]_vars

----------------------------------------------------------------------------
\* The board's loops, fed by the host.

MaxIters == 3
MaxSent == 2

\* main, lines 173-190: the saved brightness or 0.5, then the loop of the
\* transport that is available.
InitBoard ==
    /\ CodecIdle /\ StreamIdle /\ FftIdle /\ HostIdle
    /\ config \in Configs
    /\ link \in {"wifi", "serial"}
    /\ port \in {BOARD_LEFT, BOARD_RIGHT}
    /\ link = "wifi" => port = config.BOARD_ID
    /\ inbox = <<>> /\ sent = 0
    /\ decoder = PacketDecoder /\ clock = 0 /\ iters = 0
    /\ lux_file \in {None, Some(30)}
    /\ local_brightness = IF lux_file.some THEN lux_file.val ELSE 50
    /\ last_lux_ms = 0 /\ lux_dirty_ms = 0
    /\ last_frame_ms = 0 /\ last_wifi_check_ms = 0
    /\ renders = <<>> /\ timer_by = -1

\* What the host sends for the columns cols on its tick number n.
LeftPacket(n, cols) == Packet59(BOARD_LEFT, n, DEFAULT_BRIGHTNESS, cols)
RightPacket(n, cols) == Packet59(BOARD_RIGHT, n, DEFAULT_BRIGHTNESS, cols)
TickColumns == {Fill(0), Fill(11)}
Buttons == {"none", "up", "down"}
Delays == {200, NO_DATA_TIMEOUT_MS + 1}

\* src/host/main.py lines 135-137 and UDPSender.send: both packets of a tick
\* are broadcast, and both wait in the socket of every board.
Broadcast ==
    /\ link = "wifi" /\ sent < MaxSent
    /\ \E cols \in TickColumns :
          inbox' = inbox \o <<LeftPacket(sent, cols), RightPacket(sent, cols)>>
    /\ sent' = sent + 1
    /\ UNCHANGED <<config, link, port, decoder, clock, iters, local_brightness,
                   last_lux_ms, lux_dirty_ms, lux_file, last_frame_ms,
                   last_wifi_check_ms, renders, timer_by>>
    /\ UNCHANGED <<codecVars, streamVars, fftVars, hostVars>>

\* src/host/main.py lines 132-134 and SerialManager.send_left / send_right:
\* the packet of one side is written to the port the board is plugged into.
HostWrite ==
    /\ link = "serial" /\ sent < MaxSent
    /\ \E cols \in TickColumns :
          inbox' = Append(inbox, IF port = BOARD_LEFT THEN LeftPacket(sent, cols)
                                 ELSE RightPacket(sent, cols))
    /\ sent' = sent + 1
    /\ UNCHANGED <<config, link, port, decoder, clock, iters, local_brightness,
                   last_lux_ms, lux_dirty_ms, lux_file, last_frame_ms,
                   last_wifi_check_ms, renders, timer_by>>
    /\ UNCHANGED <<codecVars, streamVars, fftVars, hostVars>>

\* One iteration of the loop of _run_wifi, lines 146-170.
RunWifi ==
    /\ link = "wifi" /\ iters < MaxIters
    /\ \E press \in Buttons, delay \in Delays,
          pkt \in {IF inbox = <<>> THEN None ELSE validate_packet(Head(inbox))} :
       LET lux == PollLux(clock, press, local_brightness, last_lux_ms,
                          lux_dirty_ms, lux_file)
           frame_ms == IF pkt.some THEN clock ELSE last_frame_ms
           timeout == clock - frame_ms > NO_DATA_TIMEOUT_MS
       IN /\ local_brightness' = lux.local_brightness
          /\ last_lux_ms' = lux.last_lux_ms
          /\ lux_dirty_ms' = lux.lux_dirty_ms
          /\ lux_file' = lux.lux_file
          /\ inbox' = IF inbox = <<>> THEN <<>> ELSE Tail(inbox)
          /\ renders' = renders
                        \o (IF pkt.some
                            THEN <<RenderOf(pkt.val, lux.local_brightness)>> ELSE <<>>)
                        \o (IF timeout THEN <<Blank>> ELSE <<>>)
          /\ last_frame_ms' = IF timeout THEN clock ELSE frame_ms
          /\ timer_by' = IF timeout THEN -1
                         ELSE IF pkt.some THEN pkt.val.board_id ELSE timer_by
          /\ last_wifi_check_ms' =
                IF clock - last_wifi_check_ms > WIFI_CHECK_INTERVAL_MS
                THEN clock ELSE last_wifi_check_ms
          /\ clock' = clock + delay
    /\ iters' = iters + 1
    /\ UNCHANGED <<config, link, port, sent, decoder>>
    /\ UNCHANGED <<codecVars, streamVars, fftVars, hostVars>>

\* One iteration of the loop of _run_serial, lines 116-134.
RunSerial ==
    /\ link = "serial" /\ iters < MaxIters
    /\ \E press \in Buttons, delay \in Delays,
          fed \in {IF inbox = <<>> THEN [d |-> decoder, results |-> <<>>]
                   ELSE Feed(decoder, ReadAll(inbox))} :
       LET lux == PollLux(clock, press, local_brightness, last_lux_ms,
                          lux_dirty_ms, lux_file)
           packets == fed.results
           frame_ms == IF packets # <<>> THEN clock ELSE last_frame_ms
           timeout == clock - frame_ms > NO_DATA_TIMEOUT_MS
       IN /\ local_brightness' = lux.local_brightness
          /\ last_lux_ms' = lux.last_lux_ms
          /\ lux_dirty_ms' = lux.lux_dirty_ms
          /\ lux_file' = lux.lux_file
          /\ inbox' = <<>>
          /\ decoder' = fed.d
          /\ renders' = renders \o RenderAll(packets, lux.local_brightness)
                        \o (IF timeout THEN <<Blank>> ELSE <<>>)
          /\ last_frame_ms' = IF timeout THEN clock ELSE frame_ms
          /\ timer_by' = IF timeout THEN -1
                         ELSE IF packets # <<>> THEN packets[Len(packets)].board_id
                         ELSE timer_by
          /\ clock' = clock + delay
    /\ iters' = iters + 1
    /\ UNCHANGED <<config, link, port, sent, last_wifi_check_ms>>
    /\ UNCHANGED <<codecVars, streamVars, fftVars, hostVars>>

NextBoard ==
    \/ Broadcast
    \/ HostWrite
    \/ RunWifi
    \/ RunSerial

SpecBoard == InitBoard /\ [][NextBoard]_vars

----------------------------------------------------------------------------
\* What the properties of the stream speak of.

\* A packet of the 59-byte layout lies in s from index i on: the sync marker,
\* PACKET_BODY body bytes and one byte equal to the XOR of the body bytes.
ValidAt(s, i) ==
    /\ i >= 1 /\ i + PACKET_TOTAL - 1 <= Len(s)
    /\ s[i] = 170 /\ s[i + 1] = 85
    /\ s[i + PACKET_TOTAL - 1] = XorFrom(s, i + 2, i + PACKET_TOTAL - 2)

\* The frame those body bytes spell.
FieldsAt(s, i) ==
    [board_id |-> s[i + 2], frame |-> s[i + 3], brightness |-> s[i + 4],
     columns |-> SubSeq(s, i + 5, i + PACKET_TOTAL - 2)]

\* Some call of feed returned the frame of the packet at index i of the
\* input, on the packet's last byte.
Decoded(i) ==
    \E k \in 1..Len(frames) :
        ends[k] = i + PACKET_TOTAL - 1 /\ frames[k] = FieldsAt(input, i)

AllFed == fedN = Len(input)
KindsAre(ks) == [k \in 1..Len(segs) |-> segs[k].kind] = ks

\* C2: every frame a call of feed returned ends at a place of the input where
\* the sync marker is followed by 56 body bytes and their XOR, its fields are
\* those body bytes, and no place yields two frames; so a body whose checksum
\* does not match yields nothing.
C2_NoFrameFromCorruptBytes ==
    /\ Len(ends) = Len(frames)
    /\ \A k \in 1..Len(frames) :
          /\ ends[k] <= fedN
          /\ ValidAt(input, ends[k] - PACKET_TOTAL + 1)
          /\ frames[k] = FieldsAt(input, ends[k] - PACKET_TOTAL + 1)
          /\ k > 1 => ends[k - 1] < ends[k]

\* A damaged packet and an intact one were both read: one frame came out.
C2_Witness ==
    /\ KindsAre(<<"flipped", "packet">>) /\ AllFed
    /\ Len(frames) = 1 /\ ends = <<2 * PACKET_TOTAL>>

\* The leading segments are single garbage bytes, the last one is a packet.
GarbageThenPacket ==
    /\ Len(segs) >= 2
    /\ segs[Len(segs)].kind = "packet"
    /\ \A k \in 1..(Len(segs) - 1) : segs[k].kind = "garbage"

\* C3: after a garbage prefix without the pair 0xAA 0x55 and one valid
\* packet, the decoder has returned exactly one frame, the packet's, and it
\* has returned none while only garbage was read.
C3_Resync ==
    (/\ GarbageThenPacket
     /\ \A j \in 1..(Len(segs) - 2) : ~(input[j] = 170 /\ input[j + 1] = 85))
    => IF AllFed
       THEN frames = <<FieldsAt(input, Len(segs))>> /\ ends = <<Len(input)>>
       ELSE frames = <<>>

\* Garbage 0x55 0xAA, then a packet, all read.
C3_Witness ==
    /\ GarbageThenPacket /\ Len(segs) = 3 /\ AllFed
    /\ input[1] = 85 /\ input[2] = 170
    /\ Len(frames) = 1

\* The bad segment written last ends at this offset (0 if there is none):
\* from here on the stream is whole valid packets.
CleanFrom ==
    LET bad == {k \in 1..Len(segs) : segs[k].kind # "packet"}
    IN IF bad = {} THEN 0
       ELSE LET last == CHOOSE k \in bad : \A m \in bad : m <= k
            IN segs[last].start + segs[last].len

PacketStarts == {segs[k].start + 1 : k \in {m \in 1..Len(segs) : segs[m].kind = "packet"}}

\* Every valid packet that begins when at least 57 bytes have followed the
\* corruption, and has been read, has been decoded.
LaterPacketsDecoded ==
    \A i \in PacketStarts :
        (i - 1 >= CleanFrom + PACKET_BODY + 1 /\ i + PACKET_TOTAL - 1 <= fedN)
        => Decoded(i)

\* C4 as stated: after any corruption, once 57 further bytes have been
\* consumed every complete valid packet that follows is decoded.
C4_RecoversWithinOneWindow == LaterPacketsDecoded

\* From the last corrupted byte on, the pair 0xAA 0x55 occurs only as the
\* first two bytes of one of the whole packets that follow.
NoSpuriousSync ==
    \A j \in (IF CleanFrom = 0 THEN 1 ELSE CleanFrom)..(Len(input) - 1) :
        (input[j] = 170 /\ input[j + 1] = 85) => j \in PacketStarts

\* C4 amended: the same, provided that from the last corrupted byte on the
\* pair 0xAA 0x55 occurs only as the sync marker of the packets that follow.
C4_RecoversUnlessSpuriousSync == LaterPacketsDecoded \/ ~NoSpuriousSync

\* A packet cut short, then two whole packets: the first is lost with the
\* body window the cut packet opened, the second is decoded.
C4_Witness ==
    /\ KindsAre(<<"head", "packet", "packet">>) /\ AllFed /\ NoSpuriousSync
    /\ ends = <<HeadLen + 2 * PACKET_TOTAL>>
    /\ Decoded(HeadLen + PACKET_TOTAL + 1)

\* C6: after one or more 0xAA bytes and then a valid packet (so the stream
\* reads AA ... AA 55 body checksum) the decoder has returned exactly one
\* frame, the packet's.
C6_DuplicatedSync ==
    (/\ GarbageThenPacket /\ AllFed
     /\ \A j \in 1..(Len(segs) - 1) : input[j] = 170)
    => /\ Len(frames) = 1
       /\ Decoded(Len(segs))

\* The stream AA AA 55 body checksum has been read and gave one frame.
C6_Witness ==
    /\ KindsAre(<<"garbage", "packet">>) /\ AllFed
    /\ input[1] = 170 /\ input[2] = 170 /\ input[3] = 85
    /\ Len(frames) = 1 /\ frames[1].frame = input[5]

\* C7: whenever the stream written so far has been read, in whatever chunks
\* (empty ones included), the frames the calls of feed returned, concatenated
\* in order, are the frames one call of feed on a fresh decoder returns for
\* the whole stream.
C7_ChunkingIrrelevant ==
    AllFed => frames = Feed(PacketDecoder, input).results

\* A packet arrived in two reads, the second holding its rest and another
\* whole packet, and both frames came out of the second call.
C7_Witness ==
    /\ KindsAre(<<"head", "tail", "packet">>) /\ AllFed
    /\ Len(chunk) = (PACKET_TOTAL - HeadLen) + PACKET_TOTAL
    /\ Len(results) = 2 /\ frames = results

----------------------------------------------------------------------------
\* What the properties of the codec speak of.

Encoded == cpc # "start"
HostEncoded == Encoded /\ variant = "host"

\* The frame the arguments describe, as a decoder would return it.
ArgsFrame ==
    [board_id |-> args.board_id, frame |-> args.frame,
     brightness |-> args.brightness, columns |-> args.columns]

\* C1: a packet encode_packet built from in-range fields and delivered
\* untouched is accepted by validate_packet and by a fresh PacketDecoder,
\* and the frame they return has the encoded fields.
C1_RoundTrip ==
    (HostEncoded /\ InRange(args) /\ flip = NoFlip)
    => /\ cpc = "wifi" => vres = Some(ArgsFrame)
       /\ cpc = "serial" => fres = <<ArgsFrame>>

\* C5: validate_packet accepts a packet of the 59-byte layout delivered
\* untouched, and returns None for any packet delivered with one bit of one
\* body byte inverted.
C5_BitFlipRejected ==
    cpc = "wifi"
    => /\ (variant = "v59" /\ flip = NoFlip) => vres.some
       /\ flip.idx # 0 => vres = None

\* The top bit of the first bar of a 59-byte packet was inverted; the
\* validator returned None.
C5_Witness ==
    /\ cpc = "wifi" /\ variant = "v59"
    /\ flip = [idx |-> 6, bit |-> 7]
    /\ dgram[6] = packet[6] + 128
    /\ vres = None

\* C8: encoding (0, 7, 128, 53 zero bars, no scope, no vu) gives the 59 bytes
\* AA 55 00 07 80, 53 zero bytes, 87.
C8_Encode59Scenario ==
    (/\ HostEncoded
     /\ args = [board_id |-> 0, frame |-> 7, brightness |-> 128,
                columns |-> [k \in 1..53 |-> 0],
                scope_columns |-> None, vu |-> None])
    => packet = <<170, 85, 0, 7, 128>> \o [k \in 1..53 |-> 0] \o <<135>>

Limited(v, lo, hi) == IF v < lo THEN lo ELSE IF v > hi THEN hi ELSE v

\* C10: whatever integers are passed, every bar byte is the argument limited
\* to 0..11, every scope byte the argument limited to 0..10 and every VU
\* byte the argument limited to 0..53.
C10_EncoderClamps ==
    HostEncoded
    => /\ \A i \in 1..53 :
             /\ packet[5 + i] \in 0..11
             /\ packet[5 + i] = Limited(args.columns[i], 0, 11)
       /\ \A i \in 1..53 :
             /\ packet[58 + i] \in 0..10
             /\ args.scope_columns.some
                => packet[58 + i] = Limited(args.scope_columns.val[i], 0, 10)
       /\ \A i \in 1..4 :
             /\ packet[111 + i] \in 0..53
             /\ args.vu.some => packet[111 + i] = Limited(args.vu.val[i], 0, 53)

\* Bars, scope and VU values below and above their ranges were encoded.
C10_Witness ==
    /\ HostEncoded
    /\ args.columns[53] = 300 /\ packet[58] = 11
    /\ args.scope_columns.some
    /\ args.scope_columns.val[1] = -1 /\ packet[59] = 0
    /\ args.scope_columns.val[53] = 51 /\ packet[111] = 10
    /\ args.vu.some /\ args.vu.val[1] = -1 /\ packet[112] = 0
    /\ args.vu.val[4] = 60 /\ packet[115] = 53

----------------------------------------------------------------------------
\* What the properties of the spectrum analyzer speak of.

Called == db_in # <<>>

C12_SilenceNeverRaises ==
    (Called /\ db_in = Silence)
    => \A i \in 1..NUM_BANDS :
          ~fft.smoothed[i].nan /\ fft.smoothed[i].v <= prev.smoothed[i].v

----------------------------------------------------------------------------
\* What the properties of the host speak of.

\* The loop has copied the slot at least once.
HasRead == snapshot # <<>>
\* The two packets the tick in progress builds from its snapshot.
TickPacket(board, from, to) ==
    encode_packet(board, frame_num, DEFAULT_BRIGHTNESS, Slice(snapshot, from, to),
                  None, None)
FailedSends(to) == {k \in 1..Len(reports) : reports[k] = to}

\* C13: whatever the interleaving of the callback and the loop, the snapshot
\* the loop copied is the initial array or the whole result of one call of
\* process, and it is the array published last before the copy.
C13_AtomicHandoff ==
    HasRead =>
       /\ snapshot \in {Zeros(2 * NUM_COLS)} \cup {ProcessResult(k) : k \in 1..calls}
       /\ seen <= Len(published)
       /\ snapshot = IF seen = 0 THEN Zeros(2 * NUM_COLS) ELSE published[seen]

\* The callback published twice while the loop ran, and the second tick
\* copied the second result.
C13_Witness ==
    /\ ticks = 2 /\ hpc = "encode" /\ seen = 2
    /\ snapshot = ProcessResult(2) /\ snapshot # ProcessResult(1)

\* C14: with the producer publishing nothing more, every tick completes: no
\* exception leaves the loop, and a tick that has sent has handed the
\* transport the two packets of its snapshot with the tick's frame number.
C14_StalledProducerTicksComplete ==
    /\ raised = "none"
    /\ (hpc = "advance" /\ transport # "console") =>
          /\ Len(wire) = 2 * ticks
          /\ frame_num = Mask8(ticks - 1)
          /\ wire[Len(wire) - 1].pkt = TickPacket(BOARD_LEFT, 0, NUM_COLS)
          /\ wire[Len(wire)].pkt = TickPacket(BOARD_RIGHT, NUM_COLS, 2 * NUM_COLS)

\* C15: when main has ended after a stop signal, every tick it started has
\* sent both its packets, no exception has cut a tick short, and the audio
\* capture and the transport are closed.
C15_StopFinishesTick ==
    (~running /\ hpc = "exit") =>
       /\ raised = "none"
       /\ transport # "console" => Len(wire) = 2 * ticks
       /\ ~audio_on /\ ~link_open

\* C16: a send that fails is reported once, not again on the following
\* ticks, and after a failed send the loop is not left by an exception.
C16_SendFailureReportedOnce ==
    /\ \A to \in {"left", "right"} : Cardinality(FailedSends(to)) <= 1
    /\ reports # <<>> => raised = "none"

----------------------------------------------------------------------------
\* Further properties of the decoders.

\* The columns of a returned frame are NUM_COLS values in 0..11.
ColumnsInRange(f) ==
    /\ Len(f.columns) = NUM_COLS
    /\ \A k \in 1..NUM_COLS : f.columns[k] \in 0..11

\* C17: every frame validate_packet or PacketDecoder.feed returns has 53
\* columns, each in 0..11, whatever bytes arrived.
C17_DecodedColumnsInRange ==
    /\ (cpc = "wifi" /\ vres.some) => ColumnsInRange(vres.val)
    /\ cpc = "serial" => \A k \in 1..Len(fres) : ColumnsInRange(fres[k])

\* The decoder after one more byte b.
After(b) == FeedByte(dec, b).d

\* The byte b takes the decoder d to the decoder r as the transition relation
\* of the three states prescribes.
Prescribed(d, b, r) ==
    IF d.state = STATE_SYNC0
    THEN r = [d EXCEPT !.state = IF b = 170 THEN STATE_SYNC1 ELSE STATE_SYNC0]
    ELSE IF d.state = STATE_SYNC1
    THEN r = IF b = 85 THEN [d EXCEPT !.state = STATE_BODY, !.pos = 0]
             ELSE IF b = 170 THEN d
             ELSE [d EXCEPT !.state = STATE_SYNC0]
    ELSE /\ d.state = STATE_BODY
         /\ r.buf = [d.buf EXCEPT ![d.pos + 1] = b]
         /\ r.pos = d.pos + 1
         /\ r.state = IF d.pos + 1 = PACKET_BODY + 1 THEN STATE_SYNC0 ELSE STATE_BODY

\* C18: from every decoder state the stream reaches and for every byte: in
\* STATE_SYNC0 the decoder moves to STATE_SYNC1 on 0xAA and stays otherwise;
\* in STATE_SYNC1 it moves to STATE_BODY with pos = 0 on 0x55, stays on 0xAA
\* and returns to STATE_SYNC0 otherwise; in STATE_BODY it stores the byte
\* and returns to STATE_SYNC0 exactly when PACKET_BODY + 1 bytes are stored,
\* whatever the checksum.  (Every decoder state the stream reaches is the
\* state after some read, so the states with nothing left to read cover them.)
C18_TransitionRelation ==
    AllFed => \A b \in 0..255 : Prescribed(dec, b, After(b))

\* The decoder waits for the last byte of a body: the next byte, matching
\* checksum or not, ends the body.
C18_Witness ==
    /\ dec.state = STATE_BODY /\ dec.pos = PACKET_BODY
    /\ After(XorFrom(dec.buf, 1, PACKET_BODY)).state = STATE_SYNC0
    /\ After(0).state = STATE_SYNC0

\* The decoder d is within its bounds, with pos at most max_pos.
Bounded(d, max_pos) ==
    /\ DOMAIN d = {"state", "buf", "pos"}
    /\ d.state \in {STATE_SYNC0, STATE_SYNC1, STATE_BODY}
    /\ d.pos \in 0..max_pos
    /\ Len(d.buf) = PACKET_BODY + 1

\* The same, with pos at most PACKET_BODY while d is in STATE_BODY.
BoundedInBody(d) ==
    /\ Bounded(d, PACKET_BODY + 1)
    /\ d.state = STATE_BODY => d.pos <= PACKET_BODY

\* C19 as stated: between bytes the state is one of the three, pos is in
\* 0..PACKET_BODY, the buffer has PACKET_BODY + 1 bytes and the decoder holds
\* nothing else.
C19_BoundedDecoderBuffer == Bounded(dec, PACKET_BODY)

\* C19 amended: between bytes pos is in 0..PACKET_BODY + 1, and in
\* 0..PACKET_BODY whenever the decoder is in STATE_BODY, the only state that
\* writes, so a write targets an index below PACKET_BODY + 1; the rest as
\* stated.
C19_BoundedDecoderBufferInBody == BoundedInBody(dec)

\* A whole packet has been decoded: the decoder rests in STATE_SYNC0 with
\* pos = PACKET_BODY + 1.
C19_Witness ==
    /\ Len(frames) = 1 /\ AllFed /\ KindsAre(<<"packet">>)
    /\ dec.state = STATE_SYNC0 /\ dec.pos = PACKET_BODY + 1

\* C20: for a buffer of PACKET_TOTAL bytes, when validate_packet accepts it
\* a fresh PacketDecoder fed the buffer returns that one frame, and when a
\* fresh PacketDecoder returns a frame validate_packet accepts the buffer
\* with the same frame.
C20_DecodersAgree ==
    Len(dgram) = PACKET_TOTAL =>
       /\ (cpc = "wifi" /\ vres.some) => Feed(PacketDecoder, dgram).results = <<vres.val>>
       /\ (cpc = "serial" /\ fres # <<>>) =>
             /\ validate_packet(dgram).some
             /\ fres = <<validate_packet(dgram).val>>

\* An untouched 59-byte packet went through a fresh decoder, which returned
\* the frame validate_packet returns for it.
C20_Witness ==
    /\ cpc = "serial" /\ variant = "v59" /\ flip = NoFlip
    /\ Len(dgram) = PACKET_TOTAL /\ Len(fres) = 1
    /\ validate_packet(dgram) = Some(fres[1])

----------------------------------------------------------------------------
\* The display range of the spectrum analyzer.

\* The ceiling and the floor the call of process that just returned
\* normalised against: lines 88-89 on the tracked peak it left.
CeilUsed == EffectiveCeil(fft.tracked_peak_db)
FloorUsed == EffectiveFloor(CeilUsed)

\* C21: on every call of process, after any sequence of chunks, the
\* effective floor is strictly below the effective ceiling, and a band whose
\* level is below the floor normalises to 0.
C21_NonDegenerateRange ==
    Called =>
       /\ FloorUsed < CeilUsed
       /\ \A i \in 1..NUM_BANDS :
             db_in[i] < FloorUsed => Normalized(db_in[i], FloorUsed, CeilUsed) = Num(0)

----------------------------------------------------------------------------
\* The frames of the two boards.

\* C22: on every tick, before the first chunk and after any number of
\* published results, the snapshot holds 2 * NUM_COLS values, its left and
\* right halves hold NUM_COLS values each, and with a serial or UDP transport
\* both packets of the tick are encoded and sent.
C22_CompleteFramesForBothBoards ==
    HasRead =>
       /\ Len(snapshot) = 2 * NUM_COLS
       /\ Len(Slice(snapshot, 0, NUM_COLS)) = NUM_COLS
       /\ Len(Slice(snapshot, NUM_COLS, Len(snapshot))) = NUM_COLS
       /\ transport # "console" =>
             /\ raised # "IndexError"
             /\ hpc = "advance" =>
                   /\ Len(wire) >= 2
                   /\ wire[Len(wire) - 1].to = "left"
                   /\ wire[Len(wire) - 1].pkt = left_pkt
                   /\ wire[Len(wire)].to = "right"
                   /\ wire[Len(wire)].pkt = right_pkt

----------------------------------------------------------------------------
\* The addressing of the boards.

\* C23: a board renders only the frames addressed to it: every call of
\* vis.render for a packet is for a packet whose board_id is the board's
\* BOARD_ID, and only such a packet resets the no-data timer.
C23_RendersOnlyOwnFrames ==
    /\ \A k \in 1..Len(renders) :
          renders[k] # Blank => renders[k].board_id = config.BOARD_ID
    /\ timer_by \in {-1, config.BOARD_ID}

====
